---- MODULE Spec2Model ----
(***************************************************************************)
(* Model of webvtt/parsers.py: the sequential line engine shared by the    *)
(* SRT and SBV parsers (TextBasedParser._parse) and the WebVTT block       *)
(* engine (WebVTTParser._compute_blocks, _parse_cue_block, _parse).        *)
(*                                                                         *)
(* A line is a sequence of tokens; the empty sequence is the empty string. *)
(* Tokens are whitespace " ", the arrow "-->", the comma ",", timestamps   *)
(* of the three shapes the patterns tell apart, digit strings, the words   *)
(* "WEBVTT" and "NOTE", and other words.  The regular expressions are      *)
(* evaluated on the token sequence, left-anchored as re.match does.        *)
(***************************************************************************)
EXTENDS Integers, Sequences, FiniteSets, TLC

VARIABLES fmt, lines, pc, index, c, captions, blocks, bpos, err, run, first

vars == <<fmt, lines, pc, index, c, captions, blocks, bpos, err, run, first>>

\* Longest line list that is parsed.
MaxLen == 5

-----------------------------------------------------------------------------
(* Tokens and the timestamp shapes the three patterns distinguish.         *)

\* H+:MM:SS,mmm
TsHoursComma == {"00:00:01,000", "00:00:02,000"}
\* H+:MM:SS.mmm
TsHoursDot == {"0:00:01.000", "0:00:02.000"}
\* MM:SS.mmm
TsShortDot == {"00:01.000", "00:02.000"}

\* (\d+:\d{2}:\d{2},\d{3})
SRT_TIMESTAMP == TsHoursComma
\* ((?:\d+:)?\d{2}:\d{2}.\d{3})  -- the unescaped dot accepts the comma too
VTT_TIMESTAMP == TsHoursComma \cup TsHoursDot \cup TsShortDot
\* (\d+:\d{2}:\d{2}.\d{3})  -- the unescaped dot accepts the comma too
SBV_TIMESTAMP == TsHoursComma \cup TsHoursDot

DigitTokens == {"1", "2"}

\* Position of the first token at or after i that is not whitespace (\s*).
RECURSIVE SkipSpace(_, _)
SkipSpace(line, i) ==
    IF i <= Len(line) /\ line[i] = " " THEN SkipSpace(line, i + 1) ELSE i

\* The token at position i, or the end-of-string marker.
TokenAt(line, i) == IF i <= Len(line) THEN line[i] ELSE "$"

\* Variant: the two groups are returned in the wrong order.
ArrowMatchSwapped(ts, line) ==
    LET i1 == SkipSpace(line, 1)
        i2 == SkipSpace(line, i1 + 1)
        i3 == SkipSpace(line, i2 + 1)
    IN  IF /\ TokenAt(line, i1) \in ts
           /\ TokenAt(line, i2) = "-->"
           /\ TokenAt(line, i3) \in ts
        THEN <<line[i3], line[i1]>>
        ELSE <<>>

\* re.match of  \s*(TS)\s*-->\s*(TS) : the two groups, or <<>> for None.
ArrowMatch(ts, line) ==
    LET i1 == SkipSpace(line, 1)
        i2 == SkipSpace(line, i1 + 1)
        i3 == SkipSpace(line, i2 + 1)
    IN  IF /\ TokenAt(line, i1) \in ts
           /\ TokenAt(line, i2) = "-->"
           /\ TokenAt(line, i3) \in ts
        THEN <<line[i1], line[i3]>>
        ELSE <<>>

\* Variant: the two groups are returned in the wrong order.
CommaMatchSwapped(ts, line) ==
    LET i1 == SkipSpace(line, 1)
    IN  IF /\ TokenAt(line, i1) \in ts
           /\ TokenAt(line, i1 + 1) = ","
           /\ TokenAt(line, i1 + 2) \in ts
        THEN <<line[i1 + 2], line[i1]>>
        ELSE <<>>

\* re.match of  \s*(TS),(TS) : the two groups, or <<>> for None.
CommaMatch(ts, line) ==
    LET i1 == SkipSpace(line, 1)
    IN  IF /\ TokenAt(line, i1) \in ts
           /\ TokenAt(line, i1 + 1) = ","
           /\ TokenAt(line, i1 + 2) \in ts
        THEN <<line[i1], line[i1 + 2]>>
        ELSE <<>>

\* re.match(self.TIMEFRAME_LINE_PATTERN, line) per parser class.
ValidateTimeframeLine(f, line) ==
    CASE f = "srt" -> ArrowMatch(SRT_TIMESTAMP, line)
      [] f = "vtt" -> ArrowMatch(VTT_TIMESTAMP, line)
      [] f = "sbv" -> CommaMatch(SBV_TIMESTAMP, line)

\* '-->' in line
HasArrow(line) == \E i \in 1..Len(line) : line[i] = "-->"

\* line.isdigit()
IsDigit(line) == Len(line) > 0 /\ \A i \in 1..Len(line) : line[i] \in DigitTokens

\* Variant: SRT too takes only lines that match its pattern as timing lines.
IsTimeframeLineStrict(f, line) ==
    CASE f = "srt" -> ValidateTimeframeLine(f, line) # <<>>
      [] f = "sbv" -> ValidateTimeframeLine(f, line) # <<>>
      [] OTHER     -> FALSE

\* Variant: SBV takes every line with the separator as a timing line, the
\* way SRT does with the arrow.
IsTimeframeLineSeparator(f, line) ==
    CASE f = "srt" -> HasArrow(line)
      [] f = "sbv" -> \E i \in 1..Len(line) : line[i] = ","
      [] OTHER     -> FALSE

\* _is_timeframe_line of SRTParser and SBVParser.
IsTimeframeLine(f, line) ==
    CASE f = "srt" -> HasArrow(line)
      [] f = "sbv" -> ValidateTimeframeLine(f, line) # <<>>
      [] OTHER     -> FALSE

\* Variant: only a line that matches the pattern is a cue-timing line.
IsCueTimingsLineStrict(line) == ArrowMatch(VTT_TIMESTAMP, line) # <<>>

\* WebVTTParser._is_cue_timings_line
IsCueTimingsLine(line) == HasArrow(line)

\* Variant: every line is skipped while no caption is open.
ShouldSkipLineAny(f, line, cap) == f = "srt" /\ cap = <<>>

\* Variant: a digit-only line is skipped whether a caption is open or not.
ShouldSkipLineDigits(f, line, cap) == f = "srt" /\ IsDigit(line)

\* _should_skip_line: SRT skips a digit-only line while no caption is open.
ShouldSkipLine(f, line, cap) == f = "srt" /\ cap = <<>> /\ IsDigit(line)

\* re.match('NOTE(?:\s.+|$)', line)
MatchComment(line) ==
    /\ TokenAt(line, 1) = "NOTE"
    /\ \/ Len(line) = 1
       \/ TokenAt(line, 2) = " " /\ Len(line) >= 3

-----------------------------------------------------------------------------
(* Errors and captions.                                                    *)

NoError == [kind |-> "none", msg |-> "", line |-> 0]

MalformedFileError(m) == [kind |-> "MalformedFileError", msg |-> m, line |-> 0]

\* '<msg> in line <n>'
MalformedCaptionError(m, n) ==
    [kind |-> "MalformedCaptionError", msg |-> m, line |-> n]

\* Caption(start, end): identifier is <<>> for None, else <<line>>.
Caption(s, e) == [identifier |-> <<>>, start |-> s, end |-> e, lines |-> <<>>]

\* caption.add_line(line)
AddLine(cap, line) == [cap EXCEPT !.lines = Append(@, line)]

-----------------------------------------------------------------------------
(* File-level validation.                                                  *)

\* Variant: the index line only has to be a number.
SRTValidateAnyIndex(ls) ==
    /\ Len(ls) >= 2
    /\ IsDigit(ls[1])
    /\ ValidateTimeframeLine("srt", ls[2]) # <<>>

\* SRTParser._validate: TRUE when nothing is raised.
SRTValidate(ls) ==
    ~ (\/ Len(ls) < 2
       \/ ls[1] # <<"1">>
       \/ ValidateTimeframeLine("srt", ls[2]) = <<>>)

\* WebVTTParser._validate: re.match('WEBVTT', lines[0])
VTTValidate(ls) == TokenAt(ls[1], 1) = "WEBVTT"

\* SBVParser._validate
SBVValidate(ls) == ValidateTimeframeLine("sbv", ls[1]) # <<>>

FormatValidate(f, ls) ==
    CASE f = "srt" -> SRTValidate(ls)
      [] f = "vtt" -> VTTValidate(ls)
      [] f = "sbv" -> SBVValidate(ls)

-----------------------------------------------------------------------------
(* WebVTT block segmentation.                                              *)

Block(n) == [line_number |-> n, lines |-> <<>>]

\* Variant: the starting line number is never reset.
StartLineKeep(block, n) == block.line_number

\* "if not blocks[-1].lines: blocks[-1].line_number = index"
StartLine(block, n) == IF block.lines = <<>> THEN n ELSE block.line_number

\* The local list `blocks` after the loop has consumed the first n lines.
RECURSIVE BlocksAfter(_, _)
BlocksAfter(ls, n) ==
    IF n = 0 THEN <<>>
    ELSE LET prev == BlocksAfter(ls, n - 1)
             line == ls[n]
         IN  IF line # <<>>
             THEN LET b1   == IF prev = <<>> THEN <<Block(n)>> ELSE prev
                      last == Len(b1)
                  IN  [b1 EXCEPT ![last] =
                          [line_number |-> StartLine(b1[last], n),
                           lines       |-> Append(b1[last].lines, line)]]
             ELSE Append(prev, Block(n))

HasLines(block) == block.lines # <<>>

\* Variant: the signature block is not dropped.
SkipSignatureKeep(bs) == SelectSeq(bs, HasLines)

\* list(filter(lambda x: x.lines, blocks))[1:]
SkipSignature(bs) ==
    LET kept == SelectSeq(bs, HasLines)
    IN  IF kept = <<>> THEN <<>> ELSE Tail(kept)

\* Variant: the new blocks are added to the ones the parser already holds.
ComputeBlocksExtend(ls) == blocks \o SkipSignature(BlocksAfter(ls, Len(ls)))

\* _compute_blocks: the value assigned to self.blocks.
ComputeBlocks(ls) == SkipSignature(BlocksAfter(ls, Len(ls)))

-----------------------------------------------------------------------------
(* WebVTT block classification and cue construction.                       *)

\* Variant: a timing line anywhere in the block makes it a cue block.
IsCueBlockAnyLine(block) ==
    \E i \in 1..Len(block.lines) : IsCueTimingsLine(block.lines[i])

\* Variant: every block that is not a comment is taken as a cue block.
IsCueBlockUnlessComment(block) == ~ MatchComment(block.lines[1])

\* any(map(self._is_cue_timings_line, block.lines[:2]))
IsCueBlock(block) ==
    \E i \in 1..Len(block.lines) : i <= 2 /\ IsCueTimingsLine(block.lines[i])

\* Variant: only the bare token is a comment.
IsCommentBlockBare(block) == block.lines[1] = <<"NOTE">>

\* re.match(self.COMMENT_PATTERN, block.lines[0])
IsCommentBlock(block) == MatchComment(block.lines[1])

\* The loop of _parse_cue_block from the k-th line of the block on;
\* st holds the caption, cue_timings (<<>> for None) and a raised error.
RECURSIVE CueScan(_, _, _)
CueScan(block, k, st) ==
    IF k > Len(block.lines) \/ st.err # NoError THEN st
    ELSE LET line        == block.lines[k]
             line_number == k - 1
         IN  IF IsCueTimingsLine(line)
             THEN IF st.cue_timings = <<>>
                  THEN LET tf == ValidateTimeframeLine("vtt", line)
                       IN  IF tf = <<>>
                           THEN [st EXCEPT !.err = MalformedCaptionError(
                                    "Invalid time format",
                                    block.line_number + line_number)]
                           ELSE CueScan(block, k + 1,
                                        [st EXCEPT !.cue_timings = tf])
                  ELSE [st EXCEPT !.err = MalformedCaptionError(
                           "--> found", block.line_number + line_number)]
             ELSE IF line_number = 0
                  THEN CueScan(block, k + 1,
                               [st EXCEPT !.caption.identifier = <<line>>])
                  ELSE CueScan(block, k + 1,
                               [st EXCEPT !.caption = AddLine(@, line)])

\* Subscripting None in "caption.start = cue_timings[0]".
TypeError == [kind |-> "TypeError", msg |-> "NoneType", line |-> 0]

\* _parse_cue_block: the caption returned, or the error raised.
ParseCueBlock(block) ==
    LET st == CueScan(block, 1, [caption     |-> Caption("", ""),
                                 cue_timings |-> <<>>,
                                 err         |-> NoError])
    IN  IF st.err # NoError THEN [err |-> st.err, caption |-> st.caption]
        ELSE IF st.cue_timings = <<>>
             THEN [err |-> TypeError, caption |-> st.caption]
             ELSE [err     |-> NoError,
                   caption |-> [st.caption EXCEPT !.start = st.cue_timings[1],
                                                  !.end   = st.cue_timings[2]]]

-----------------------------------------------------------------------------
(* Inputs.                                                                 *)

Formats == {"srt", "sbv", "vtt"}

\* Lines an SRT file is built from: blank, index lines, a timeframe line,
\* an arrow line that is not an SRT timeframe, caption text.
SRTLines ==
    { <<>>, <<"1">>, <<"1", "2">>,
      <<"00:00:01,000", " ", "-->", " ", "00:00:02,000">>,
      <<"00:01.000", " ", "-->", " ", "00:02.000">>,
      <<"Hello">> }

\* Lines an SBV file is built from: blank, a timeframe line, a truncated
\* timeframe line, a number, caption text.
SBVLines ==
    { <<>>, <<"0:00:01.000", ",", "0:00:02.000">>,
      <<"0:00:01.000", ",">>, <<"1">>, <<"Hello">> }

\* Lines a WebVTT file is built from: blank, the signature, a cue-timing
\* line without and one with hours and whitespace, an arrow line that is not
\* a cue timing, text, two comment markers.
VTTLines ==
    { <<>>, <<"WEBVTT">>,
      <<"00:01.000", "-->", "00:02.000">>,
      <<" ", "0:00:02.000", " ", "-->", " ", "00:00:01,000">>,
      <<"Hello", " ", "-->">>,
      <<"Hello">>, <<"NOTE", " ", "Hello">>, <<"NOTE">> }

LinesOf(f) ==
    CASE f = "srt" -> SRTLines
      [] f = "sbv" -> SBVLines
      [] f = "vtt" -> VTTLines

\* The non-empty line lists of at most MaxLen lines (_read_content rejects
\* the empty list before validation).
Inputs(f) == UNION { [1..n -> LinesOf(f)] : n \in 1..MaxLen }

-----------------------------------------------------------------------------
(* The parse as a state machine.                                           *)
(*   pc       "validate" -> "parse" (SRT, SBV) | "blocks" -> "cues" (VTT)  *)
(*            -> "done" | "error"                                          *)
(*   index    number of lines the sequential loop has consumed             *)
(*   c        the open caption of the sequential loop: <<>> or <<caption>> *)
(*   captions self.captions                                                *)
(*   blocks   self.blocks; bpos: number of blocks consumed                 *)
(*   err      the exception that left the parse, or NoError                *)
(*   run      1 or 2: which read of the same parser object this is         *)
(*   first    outcome of the first read                                    *)

Outcome == [err |-> err, captions |-> captions]

Init ==
    /\ fmt \in Formats
    /\ lines \in Inputs(fmt)
    /\ pc = "validate"
    /\ index = 0
    /\ c = <<>>
    /\ captions = <<>>
    /\ blocks = <<>>
    /\ bpos = 0
    /\ err = NoError
    /\ run = 1
    /\ first = [err |-> NoError, captions |-> <<>>]

\* Variant: the error is recorded and the scan goes on with the next item.
RaiseAndContinue(e) ==
    /\ err' = e
    /\ pc' = IF pc = "validate" THEN "error" ELSE pc
    /\ index' = IF pc = "parse" THEN index + 1 ELSE index
    /\ bpos' = IF pc = "cues" THEN bpos + 1 ELSE bpos
    /\ UNCHANGED <<c, captions, blocks>>

\* raise: the exception leaves _validate/_parse; nothing else is touched.
Raise(e) ==
    /\ err' = e
    /\ pc' = "error"
    /\ UNCHANGED <<c, captions, index, bpos, blocks>>

\* self._validate(lines)
Validate ==
    /\ pc = "validate"
    /\ IF FormatValidate(fmt, lines)
       THEN /\ pc' = IF fmt = "vtt" THEN "blocks" ELSE "parse"
            /\ UNCHANGED <<err, c, captions, index, bpos, blocks>>
       ELSE Raise(MalformedFileError("The file does not have a valid format"))
    /\ UNCHANGED <<fmt, lines, run, first>>

\* Variant: a caption that is still open is kept.
OpenCaptionKeep(cap, tf) ==
    IF cap # <<>> THEN cap ELSE <<Caption(tf[1], tf[2])>>

\* "c = Caption(start, end)": the new value of c; the caption that was open
\* is no longer referenced.
OpenCaption(cap, tf) == <<Caption(tf[1], tf[2])>>

\* One iteration of the loop of TextBasedParser._parse.
ParseLine ==
    /\ pc = "parse"
    /\ index < Len(lines)
    /\ LET line == lines[index + 1]
           next == /\ index' = index + 1
                   /\ UNCHANGED <<pc, err, blocks, bpos>>
       IN  IF IsTimeframeLine(fmt, line)
           THEN LET tf == ValidateTimeframeLine(fmt, line)
                IN  IF tf = <<>>
                    THEN Raise(MalformedCaptionError("Invalid time format",
                                                     index + 1))
                    ELSE /\ c' = OpenCaption(c, tf)
                         /\ next
                         /\ UNCHANGED captions
           ELSE IF ShouldSkipLine(fmt, line, c)
           THEN next /\ UNCHANGED <<c, captions>>
           ELSE IF line # <<>>
           THEN IF c = <<>>
                THEN Raise(MalformedCaptionError("Caption missing timeframe",
                                                 index + 1))
                ELSE /\ c' = <<AddLine(c[1], line)>>
                     /\ next
                     /\ UNCHANGED captions
           ELSE IF c = <<>>
                THEN next /\ UNCHANGED <<c, captions>>
                ELSE IF c[1].lines = <<>>
                     THEN Raise(MalformedCaptionError("Caption missing text",
                                                      index + 1))
                     ELSE /\ captions' = Append(captions, c[1])
                          /\ c' = <<>>
                          /\ next
    /\ UNCHANGED <<fmt, lines, run, first>>

\* Variant: the open caption is kept whether it has text or not.
FlushAtEndAlways(cap, store) ==
    IF cap # <<>> THEN Append(store, cap[1]) ELSE store

\* "if c is not None and c.lines: self.captions.append(c)"
FlushAtEnd(cap, store) ==
    IF cap # <<>> /\ cap[1].lines # <<>> THEN Append(store, cap[1]) ELSE store

\* The end of TextBasedParser._parse, after the loop.
ParseEnd ==
    /\ pc = "parse"
    /\ index = Len(lines)
    /\ captions' = FlushAtEnd(c, captions)
    /\ pc' = "done"
    /\ UNCHANGED <<fmt, lines, index, c, blocks, bpos, err, run, first>>

\* WebVTTParser._parse: self._compute_blocks(lines)
ComputeBlocksStep ==
    /\ pc = "blocks"
    /\ blocks' = ComputeBlocks(lines)
    /\ bpos' = 0
    /\ pc' = "cues"
    /\ UNCHANGED <<fmt, lines, index, c, captions, err, run, first>>

\* One iteration of the loop of WebVTTParser._parse.
ParseBlock ==
    /\ pc = "cues"
    /\ bpos < Len(blocks)
    /\ LET block == blocks[bpos + 1]
           next  == /\ bpos' = bpos + 1
                    /\ UNCHANGED <<pc, err, index, c, blocks>>
       IN  IF IsCueBlock(block)
           THEN LET r == ParseCueBlock(block)
                IN  IF r.err # NoError
                    THEN Raise(r.err)
                    ELSE /\ captions' = Append(captions, r.caption)
                         /\ next
           ELSE IF IsCommentBlock(block)
           THEN next /\ UNCHANGED captions
           ELSE IF Len(block.lines) = 1
                THEN Raise(MalformedCaptionError("Standalone cue identifier",
                                                 block.line_number))
                ELSE Raise(MalformedCaptionError("Missing timing cue",
                                                 block.line_number + 1))
    /\ UNCHANGED <<fmt, lines, run, first>>

\* The end of WebVTTParser._parse, after the loop.
ParseBlocksEnd ==
    /\ pc = "cues"
    /\ bpos = Len(blocks)
    /\ pc' = "done"
    /\ UNCHANGED <<fmt, lines, index, c, captions, blocks, bpos, err, run, first>>

\* A second read of the same line list with the same parser object: the
\* Caption Store belongs to one parse invocation, the locals start afresh,
\* self.blocks still holds what the first read left in it.
Rerun ==
    /\ pc \in {"done", "error"}
    /\ run = 1
    /\ run' = 2
    /\ first' = Outcome
    /\ pc' = "validate"
    /\ index' = 0
    /\ c' = <<>>
    /\ captions' = <<>>
    /\ bpos' = 0
    /\ err' = NoError
    /\ UNCHANGED <<fmt, lines, blocks>>

Next ==
    \/ Validate
    \/ ParseLine
    \/ ParseEnd
    \/ ComputeBlocksStep
    \/ ParseBlock
    \/ ParseBlocksEnd

Spec == Init /\ [][Next]_vars

NextTwice == Next \/ Rerun

SpecTwice == Init /\ [][NextTwice]_vars

-----------------------------------------------------------------------------
(* The input seen as blank-line-delimited groups, independently of the     *)
(* engines.                                                                *)

\* The maximal runs <<s, e>> of consecutive non-blank lines of the input.
Runs ==
    { r \in (1..Len(lines)) \X (1..Len(lines)) :
        /\ r[1] <= r[2]
        /\ \A j \in r[1]..r[2] : lines[j] # <<>>
        /\ r[1] = 1 \/ lines[r[1] - 1] = <<>>
        /\ r[2] = Len(lines) \/ lines[r[2] + 1] = <<>> }

\* First line of the run that the non-blank line n lies in.
RunStart(n) ==
    CHOOSE s \in 1..n :
        /\ \A j \in s..n : lines[j] # <<>>
        /\ s = 1 \/ lines[s - 1] = <<>>

\* The format's timing lines: arrow lines for SRT and WebVTT, lines that
\* match the pattern for SBV.
TimingLine(line) ==
    IF fmt = "sbv" THEN CommaMatch(SBV_TIMESTAMP, line) # <<>> ELSE HasArrow(line)

\* An arrow in the first or the second line of the run r.
ArrowInFirstTwo(r) ==
    \E j \in r[1]..r[2] : j <= r[1] + 1 /\ HasArrow(lines[j])

-----------------------------------------------------------------------------
(* C1..C10                                                                 *)

\* C1: every caption in the Caption Store has at least one text line, at
\* every point of the parse, for every format.
C1_StoredCaptionsHaveText ==
    \A k \in 1..Len(captions) : captions[k].lines # <<>>

\* Timing lines that open a caption and are followed by a text line: for
\* WebVTT the arrow lines at the first or second line of a non-header block.
OpenedWithText ==
    { i \in 1..(Len(lines) - 1) :
        /\ TimingLine(lines[i])
        /\ lines[i + 1] # <<>>
        /\ ~ TimingLine(lines[i + 1])
        /\ fmt = "vtt" => RunStart(i) > 1 /\ i - RunStart(i) <= 1 }

\* C2: in a parse that ends without error every caption that was opened by
\* a timing line and received text is in the Caption Store (one stored
\* caption per such timing line at least).
C2_TextedCaptionsStored ==
    pc = "done" => Len(captions) >= Cardinality(OpenedWithText)

\* The groups C3 counts: for WebVTT the blocks other than the header block
\* and the blocks whose first line is a NOTE marker; for SRT and SBV the
\* groups that hold a timing line.
ClaimedCaptionGroups ==
    IF fmt = "vtt"
    THEN { r \in Runs : r[1] # 1 /\ ~ MatchComment(lines[r[1]]) }
    ELSE { r \in Runs : \E i \in r[1]..r[2] : TimingLine(lines[i]) }

\* C3 as stated: the number of captions of an error-free parse equals the
\* number of caption groups of the input.
C3_CountEqualsClaimedGroups ==
    pc = "done" => Len(captions) = Cardinality(ClaimedCaptionGroups)

\* The groups that yield a caption: for WebVTT the non-header blocks other
\* than those with a NOTE first line and no arrow in their first two lines;
\* for SRT and SBV the groups with a text line after their last timing line.
CaptionGroups ==
    IF fmt = "vtt"
    THEN { r \in Runs :
             /\ r[1] # 1
             /\ ~ (MatchComment(lines[r[1]]) /\ ~ ArrowInFirstTwo(r)) }
    ELSE { r \in Runs :
             \E i \in r[1]..(r[2] - 1) :
                 /\ TimingLine(lines[i])
                 /\ \A j \in (i + 1)..r[2] : ~ TimingLine(lines[j]) }

\* C3 (amended): the number of captions of an error-free parse equals the
\* number of groups that yield a caption.
C3_CountEqualsCaptionGroups ==
    pc = "done" => Len(captions) = Cardinality(CaptionGroups)

C3_Witness ==
    /\ pc = "done"
    /\ fmt # "vtt"
    /\ Len(captions) >= 1
    /\ Cardinality(Runs) > Cardinality(CaptionGroups)

SignatureAccepted ==
    CASE fmt = "srt" -> /\ Len(lines) >= 2
                        /\ lines[1] = <<"1">>
                        /\ ArrowMatch(SRT_TIMESTAMP, lines[2]) # <<>>
      [] fmt = "vtt" -> Len(lines[1]) >= 1 /\ lines[1][1] = "WEBVTT"
      [] fmt = "sbv" -> CommaMatch(SBV_TIMESTAMP, lines[1]) # <<>>

\* C5: once validation has run, a malformed-file error has been raised
\* exactly when the signature is not an accepted one, and then the Caption
\* Store is empty; a rejected signature never gives a malformed-caption error.
C5_SignatureValidation ==
    pc # "validate" =>
        /\ (err.kind = "MalformedFileError") <=> ~ SignatureAccepted
        /\ ~ SignatureAccepted => captions = <<>> /\ pc = "error"

C5_Witness ==
    /\ fmt = "srt"
    /\ err.kind = "MalformedFileError"
    /\ Len(lines) >= 2
    /\ IsDigit(lines[1])
    /\ ArrowMatch(SRT_TIMESTAMP, lines[2]) # <<>>

\* Neither the first nor the second line of the block holds an arrow.
NoArrowInFirstTwoLines(b) ==
    \A i \in 1..Len(b.lines) : i <= 2 => ~ HasArrow(b.lines[i])

\* The block the WebVTT loop is about to classify has no arrow in its first
\* two lines and no NOTE marker in its first line.
AtMalformedBlock ==
    /\ pc = "cues"
    /\ bpos < Len(blocks)
    /\ NoArrowInFirstTwoLines(blocks[bpos + 1])
    /\ ~ MatchComment(blocks[bpos + 1].lines[1])

\* C6: classifying such a block raises "Standalone cue identifier in line N"
\* (N the block's start) when it has one line and "Missing timing cue in
\* line N+1" when it has more, also with an arrow at its third line or later.
C6_MalformedBlockErrors ==
    [][AtMalformedBlock =>
          LET b == blocks[bpos + 1]
          IN  err' = IF Len(b.lines) = 1
                     THEN MalformedCaptionError("Standalone cue identifier",
                                                b.line_number)
                     ELSE MalformedCaptionError("Missing timing cue",
                                                b.line_number + 1)]_vars

C6_Witness ==
    /\ pc = "error"
    /\ err.msg = "Missing timing cue"
    /\ Len(blocks[bpos + 1].lines) >= 3
    /\ HasArrow(blocks[bpos + 1].lines[3])
    /\ err.line = blocks[bpos + 1].line_number + 1

\* The block the WebVTT loop is about to classify starts with a NOTE marker.
AtNoteBlock ==
    /\ pc = "cues"
    /\ bpos < Len(blocks)
    /\ MatchComment(blocks[bpos + 1].lines[1])

BlockSkipped ==
    /\ captions' = captions
    /\ err' = NoError
    /\ pc' = "cues"
    /\ bpos' = bpos + 1

\* C7 as stated: a block whose first line is a NOTE marker is skipped,
\* whatever its other lines contain.
C7_NoteBlockSkipped == [][AtNoteBlock => BlockSkipped]_vars

\* C7 (amended): a block whose first line is a NOTE marker and whose first
\* two lines hold no arrow is skipped, whatever its other lines contain.
C7_NoteBlockWithoutArrowSkipped ==
    [][(AtNoteBlock /\ NoArrowInFirstTwoLines(blocks[bpos + 1]))
          => BlockSkipped]_vars

C7_Witness ==
    /\ pc \in {"cues", "done"}
    /\ err = NoError
    /\ captions = <<>>
    /\ bpos >= 1
    /\ MatchComment(blocks[bpos].lines[1])
    /\ Len(blocks[bpos].lines) >= 3
    /\ HasArrow(blocks[bpos].lines[3])

\* The SRT loop is about to read a non-blank line without arrow while no
\* caption is open.
AtSRTTextWithoutCaption ==
    /\ fmt = "srt"
    /\ pc = "parse"
    /\ index < Len(lines)
    /\ lines[index + 1] # <<>>
    /\ ~ HasArrow(lines[index + 1])
    /\ c = <<>>

MissingTimeframeRaised ==
    /\ err' = MalformedCaptionError("Caption missing timeframe", index + 1)
    /\ pc' = "error"
    /\ captions' = captions

\* C8 as stated: every such line raises "Caption missing timeframe in line
\* N" with N its 1-based index.
C8_TextWithoutCaptionRaises ==
    [][AtSRTTextWithoutCaption => MissingTimeframeRaised]_vars

\* C8 (amended): every such line that is not made only of digits raises
\* "Caption missing timeframe in line N" with N its 1-based index.
C8_NonDigitTextWithoutCaptionRaises ==
    [][(AtSRTTextWithoutCaption /\ ~ IsDigit(lines[index + 1]))
          => MissingTimeframeRaised]_vars

C8_Witness ==
    /\ fmt = "srt"
    /\ pc = "error"
    /\ err = MalformedCaptionError("Caption missing timeframe", index + 1)
    /\ index >= 2
    /\ c = <<>>
    /\ ~ IsDigit(lines[index + 1])

\* What the line number n of a WebVTT malformed-caption error must point at.
VTTErrorLineOk(m, n) ==
    /\ lines[n] # <<>>
    /\ RunStart(n) > 1
    /\ CASE m = "Invalid time format" ->
                /\ HasArrow(lines[n])
                /\ ArrowMatch(VTT_TIMESTAMP, lines[n]) = <<>>
                /\ n - RunStart(n) <= 1
                /\ \A j \in RunStart(n)..(n - 1) : ~ HasArrow(lines[j])
         [] m = "--> found" ->
                /\ HasArrow(lines[n])
                /\ \E j \in RunStart(n)..(n - 1) : HasArrow(lines[j])
         [] m = "Standalone cue identifier" ->
                /\ RunStart(n) = n
                /\ n = Len(lines) \/ lines[n + 1] = <<>>
         [] m = "Missing timing cue" ->
                /\ RunStart(n) = n - 1
         [] OTHER -> FALSE

\* What the line number n of a sequential-engine error must point at.
SeqErrorLineOk(m, n) ==
    /\ n = index + 1
    /\ CASE m = "Invalid time format" -> HasArrow(lines[n])
         [] m = "Caption missing timeframe" ->
                lines[n] # <<>> /\ ~ TimingLine(lines[n])
         [] m = "Caption missing text" -> lines[n] = <<>>
         [] OTHER -> FALSE

\* C9: the line number of a malformed-caption error is the 1-based index in
\* the input of the line the problem was detected at.
C9_ErrorLineNumbers ==
    err.kind = "MalformedCaptionError" =>
        /\ err.line \in 1..Len(lines)
        /\ IF fmt = "vtt" THEN VTTErrorLineOk(err.msg, err.line)
                          ELSE SeqErrorLineOk(err.msg, err.line)

C9_Witness ==
    /\ fmt = "vtt"
    /\ err.kind = "MalformedCaptionError"
    /\ err.line = 5
    /\ lines[2] = <<>>
    /\ lines[3] = <<>>
    /\ RunStart(5) = 4

\* C10: once an error has been raised the parse is over: no further line or
\* block is consumed, no caption is appended, the parse does not complete.
C10_ErrorIsTerminal ==
    [][/\ err # NoError =>
            /\ err' = err
            /\ captions' = captions
            /\ index' = index
            /\ bpos' = bpos
            /\ pc' = "error"
       /\ err' # NoError => pc' = "error" /\ captions' = captions]_vars

C10_Witness ==
    /\ pc = "error"
    /\ err.kind = "MalformedCaptionError"
    /\ captions # <<>>
    /\ index + 1 < Len(lines)

-----------------------------------------------------------------------------
(* C11..C20                                                                *)

IsTimestampToken(t) == t \in TsHoursComma \cup TsHoursDot \cup TsShortDot

\* The timestamps written in a line, in the order they are written.
TimestampsIn(line) == SelectSeq(line, IsTimestampToken)

\* The k-th run of the set S of runs, in input order.
NthRun(S, k) == CHOOSE r \in S : Cardinality({ q \in S : q[1] < r[1] }) = k - 1

\* The non-header runs with an arrow in one of their first two lines.
CueRuns == { r \in Runs : r[1] # 1 /\ ArrowInFirstTwo(r) }

\* The caption C11 describes for the cue run r: t is its timing line.
ExpectedCue(r) ==
    LET t == CHOOSE i \in r[1]..r[2] :
                 /\ HasArrow(lines[i])
                 /\ \A j \in r[1]..(i - 1) : ~ HasArrow(lines[j])
    IN  [identifier |-> IF HasArrow(lines[r[1]]) THEN <<>> ELSE <<lines[r[1]]>>,
         start      |-> TimestampsIn(lines[t])[1],
         end        |-> TimestampsIn(lines[t])[2],
         lines      |-> SubSeq(lines, t + 1, r[2])]

\* C11: the k-th caption of the WebVTT store is built from the k-th cue
\* block of the input: identifier = the first line unless that is the timing
\* line, start/end = the timestamps of the timing line as written, lines =
\* the remaining lines in order.
C11_CueCaptionFields ==
    fmt = "vtt" =>
        /\ Len(captions) <= Cardinality(CueRuns)
        /\ \A k \in 1..Len(captions) :
               captions[k] = ExpectedCue(NthRun(CueRuns, k))

C11_Witness ==
    /\ fmt = "vtt"
    /\ pc = "done"
    /\ \E k \in 1..Len(captions) :
           captions[k].identifier # <<>> /\ captions[k].lines # <<>>

C11_OrderWitness ==
    /\ fmt = "vtt"
    /\ pc = "done"
    /\ Len(captions) = 2
    /\ captions[1].start = "00:01.000"
    /\ captions[2].start = "0:00:02.000"

\* The caption C12 describes for the group r of an SRT or SBV input: t is
\* the last timing line of the group, the one whose caption is finalized.
ExpectedSeqCaption(r) ==
    LET t == CHOOSE i \in r[1]..r[2] :
                 /\ TimingLine(lines[i])
                 /\ \A j \in (i + 1)..r[2] : ~ TimingLine(lines[j])
    IN  [identifier |-> <<>>,
         start      |-> TimestampsIn(lines[t])[1],
         end        |-> TimestampsIn(lines[t])[2],
         lines      |-> SubSeq(lines, t + 1, r[2])]

\* C12: after an error-free SRT or SBV parse the store holds, in input
\* order, one caption per finalized timing line, with the timestamps of that
\* line as written and exactly the lines between it and the blank line or
\* end of input that finalized it.
C12_SequentialCaptionFields ==
    (fmt # "vtt" /\ pc = "done") =>
        /\ Len(captions) = Cardinality(CaptionGroups)
        /\ \A k \in 1..Len(captions) :
               captions[k] = ExpectedSeqCaption(NthRun(CaptionGroups, k))

C12_Witness ==
    /\ fmt # "vtt"
    /\ pc = "done"
    /\ Len(captions) = 2
    /\ captions[1].lines # captions[2].lines
    /\ captions[1].start # captions[1].end

\* The sequential loop is about to read a line that matches the format's
\* timeframe pattern while a caption is open.
AtTimeframeWhileOpen ==
    /\ fmt # "vtt"
    /\ pc = "parse"
    /\ index < Len(lines)
    /\ c # <<>>
    /\ IF fmt = "srt" THEN ArrowMatch(SRT_TIMESTAMP, lines[index + 1]) # <<>>
                      ELSE CommaMatch(SBV_TIMESTAMP, lines[index + 1]) # <<>>

\* C13: a matching timing line read while a caption is open replaces that
\* caption, with or without text, by a new one without text; nothing is
\* appended to the store and no error is raised.  The sequential store never
\* holds a caption without text.
C13_OpenCaptionReplaced ==
    [][/\ AtTimeframeWhileOpen =>
            /\ captions' = captions
            /\ err' = NoError
            /\ pc' = "parse"
            /\ c' = <<[identifier |-> <<>>,
                       start      |-> TimestampsIn(lines[index + 1])[1],
                       end        |-> TimestampsIn(lines[index + 1])[2],
                       lines      |-> <<>>]>>
       /\ fmt # "vtt" =>
            \A k \in 1..Len(captions') : captions'[k].lines # <<>>]_vars

\* A caption with text was dropped: the store is still empty after the
\* second timing line.
C13_Witness ==
    /\ fmt # "vtt"
    /\ pc = "parse"
    /\ index >= 3
    /\ TimingLine(lines[index])
    /\ lines[index - 1] # <<>>
    /\ ~ TimingLine(lines[index - 1])
    /\ TimingLine(lines[index - 2])
    /\ c # <<>>
    /\ c[1].lines = <<>>
    /\ captions = <<>>
    /\ err = NoError

\* The sequential loop is about to read a blank line.
AtBlankLine ==
    /\ fmt # "vtt"
    /\ pc = "parse"
    /\ index < Len(lines)
    /\ lines[index + 1] = <<>>

\* The sequential loop has consumed every line.
AtEndOfInput ==
    /\ fmt # "vtt"
    /\ pc = "parse"
    /\ index = Len(lines)

\* C14: a blank line is ignored when no caption is open, raises "Caption
\* missing text in line N" when the open caption has no text, and otherwise
\* moves the open caption to the store and leaves no caption open; at end of
\* input an open caption with text is appended and one without text is
\* dropped without error.
C14_BlankLineAndEndOfInput ==
    [][/\ (AtBlankLine /\ c = <<>>) =>
            /\ captions' = captions
            /\ c' = <<>>
            /\ err' = NoError
            /\ index' = index + 1
       /\ (AtBlankLine /\ c # <<>> /\ c[1].lines = <<>>) =>
            /\ err' = MalformedCaptionError("Caption missing text", index + 1)
            /\ captions' = captions
       /\ (AtBlankLine /\ c # <<>> /\ c[1].lines # <<>>) =>
            /\ captions' = Append(captions, c[1])
            /\ c' = <<>>
            /\ err' = NoError
            /\ index' = index + 1
       /\ (AtEndOfInput /\ c # <<>> /\ c[1].lines # <<>>) =>
            /\ captions' = Append(captions, c[1])
            /\ err' = NoError
            /\ pc' = "done"
       /\ (AtEndOfInput /\ (c = <<>> \/ c[1].lines = <<>>)) =>
            /\ captions' = captions
            /\ err' = NoError
            /\ pc' = "done"]_vars

\* A parse that ended with an open caption without text, after a blank line
\* had moved an earlier caption to the store.
C14_Witness ==
    /\ fmt # "vtt"
    /\ pc = "done"
    /\ err = NoError
    /\ c # <<>>
    /\ c[1].lines = <<>>
    /\ Len(captions) = 1
    /\ \E i \in 1..Len(lines) : lines[i] = <<>>

\* The SRT loop is about to read a line with an arrow that does not match
\* the SRT timeframe pattern.
AtSRTBadArrowLine ==
    /\ fmt = "srt"
    /\ pc = "parse"
    /\ index < Len(lines)
    /\ HasArrow(lines[index + 1])
    /\ ArrowMatch(SRT_TIMESTAMP, lines[index + 1]) = <<>>

\* C15: such a line raises "Invalid time format in line N", N its 1-based
\* index, whether a caption is open or not; it is neither skipped nor taken
\* as caption text.
C15_BadArrowLineRaises ==
    [][AtSRTBadArrowLine =>
          /\ err' = MalformedCaptionError("Invalid time format", index + 1)
          /\ pc' = "error"
          /\ c' = c
          /\ captions' = captions
          /\ index' = index]_vars

C15_Witness ==
    /\ fmt = "srt"
    /\ pc = "error"
    /\ err = MalformedCaptionError("Invalid time format", index + 1)
    /\ c # <<>>
    /\ c[1].lines # <<>>

\* The runs of the input after the first one.
LaterRuns == { r \in Runs : r[1] # 1 }

\* The block list C16 describes: one block per later run, in input order.
ExpectedBlocks ==
    [k \in 1..Cardinality(LaterRuns) |->
        LET r == NthRun(LaterRuns, k)
        IN  [line_number |-> r[1], lines |-> SubSeq(lines, r[1], r[2])]]

\* self.blocks has been computed in this parse.
BlocksComputed ==
    /\ fmt = "vtt"
    /\ run = 1
    /\ pc \in {"cues", "done"} \/ err.kind = "MalformedCaptionError"

\* C16: the block list is the list of maximal runs of non-blank lines of
\* the input without the first run, each with its lines in order and the
\* 1-based index of its first line; no error points into the first run.
C16_BlocksAreLaterRuns ==
    BlocksComputed =>
        /\ blocks = ExpectedBlocks
        /\ err.kind = "MalformedCaptionError" => RunStart(err.line) # 1

\* A header run of two lines, the second with an arrow, is dropped; the
\* only block starts after two blank lines.
C16_Witness ==
    /\ BlocksComputed
    /\ pc = "done"
    /\ err = NoError
    /\ captions = <<>>
    /\ Len(lines) = 5
    /\ HasArrow(lines[2])
    /\ lines[3] = <<>>
    /\ lines[4] = <<>>
    /\ Len(blocks) = 1
    /\ blocks[1].line_number = 5

\* Positions in the block b of the lines that hold an arrow.
ArrowPositions(b) == { i \in 1..Len(b.lines) : HasArrow(b.lines[i]) }

\* Position of the first arrow line of b after position t, or 0.
NextArrowAfter(b, t) ==
    IF \E i \in ArrowPositions(b) : i > t
    THEN CHOOSE i \in ArrowPositions(b) :
             i > t /\ \A j \in ArrowPositions(b) : j > t => i <= j
    ELSE 0

\* The WebVTT loop is about to build a cue block.
AtCueBlock ==
    /\ pc = "cues"
    /\ bpos < Len(blocks)
    /\ ~ NoArrowInFirstTwoLines(blocks[bpos + 1])

\* C17: in a cue block whose first arrow line has been parsed as the timing
\* line, the next arrow line raises "--> found in line N", N = block start +
\* 0-based offset, whether it matches the pattern or not; a cue block with
\* two arrow lines or more adds no caption.
C17_SecondArrowLineRaises ==
    [][AtCueBlock =>
          LET b == blocks[bpos + 1]
              t == NextArrowAfter(b, 0)
              s == NextArrowAfter(b, t)
          IN  /\ (s # 0 /\ ArrowMatch(VTT_TIMESTAMP, b.lines[t]) # <<>>) =>
                    err' = MalformedCaptionError("--> found",
                                                 b.line_number + (s - 1))
              /\ s # 0 => captions' = captions /\ pc' = "error"]_vars

\* The second arrow line does not match the pattern and follows an
\* identifier line and a timing line.
C17_Witness ==
    /\ fmt = "vtt"
    /\ pc = "error"
    /\ err.msg = "--> found"
    /\ err.line = blocks[bpos + 1].line_number + 2
    /\ ~ HasArrow(lines[err.line - 2])
    /\ ArrowMatch(VTT_TIMESTAMP, lines[err.line - 1]) # <<>>
    /\ ArrowMatch(VTT_TIMESTAMP, lines[err.line]) = <<>>

\* The WebVTT loop is about to hand a block to the cue builder.
AtAcceptedCueBlock ==
    /\ pc = "cues"
    /\ bpos < Len(blocks)
    /\ IsCueBlock(blocks[bpos + 1])

\* C18: for a block the classifier accepts, the cue builder either raises a
\* malformed-caption error or returns a caption whose start and end come
\* from the one timing line of the block; it never fails on an absent
\* timing pair.
C18_BuilderHasTimings ==
    [][AtAcceptedCueBlock =>
          \/ /\ err'.kind = "MalformedCaptionError"
             /\ captions' = captions
          \/ /\ err' = NoError
             /\ Cardinality(ArrowPositions(blocks[bpos + 1])) = 1
             /\ Len(captions') = Len(captions) + 1
             /\ captions'[Len(captions')].start \in VTT_TIMESTAMP
             /\ captions'[Len(captions')].end \in VTT_TIMESTAMP]_vars

\* The first block was accepted with its timing line in second place and
\* has been built.
C18_Witness ==
    /\ fmt = "vtt"
    /\ pc = "cues"
    /\ err = NoError
    /\ bpos = 1
    /\ Len(captions) = 1
    /\ ~ HasArrow(blocks[1].lines[1])
    /\ captions[1].start \in VTT_TIMESTAMP

\* The SRT loop is about to read a line made only of digits.
AtSRTDigitLine ==
    /\ fmt = "srt"
    /\ pc = "parse"
    /\ index < Len(lines)
    /\ IsDigit(lines[index + 1])

\* C19: a digit-only line is ignored when no caption is open and becomes
\* the last text line of the open caption otherwise; neither case raises.
C19_DigitLineSkippedOnlyWhenClosed ==
    [][AtSRTDigitLine =>
          /\ err' = NoError
          /\ captions' = captions
          /\ index' = index + 1
          /\ c' = IF c = <<>>
                  THEN <<>>
                  ELSE <<[c[1] EXCEPT
                            !.lines = c[1].lines \o <<lines[index + 1]>>]>>]_vars

\* The parse ended on a digit-only line that was dropped, no timing line
\* after it; an earlier caption took a digit-only line as text.
C19_Witness ==
    /\ fmt = "srt"
    /\ pc = "done"
    /\ err = NoError
    /\ IsDigit(lines[Len(lines)])
    /\ c = <<>>
    /\ Len(captions) = 1
    /\ IsDigit(captions[1].lines[1])

\* The SBV loop is about to read a line.
AtSBVLine ==
    /\ fmt = "sbv"
    /\ pc = "parse"
    /\ index < Len(lines)

\* C20: the SBV engine opens a caption on a line exactly when the line
\* matches the SBV pattern; a non-blank line that does not match, a
\* malformed timing line included, is appended as text when a caption is
\* open and raises "Caption missing timeframe in line N" when none is; the
\* only malformed-caption errors are that one and "Caption missing text".
C20_SBVTimeframeLines ==
    [][AtSBVLine =>
          LET line    == lines[index + 1]
              matches == CommaMatch(SBV_TIMESTAMP, line) # <<>>
          IN  /\ matches =>
                    /\ err' = NoError
                    /\ c' # <<>>
                    /\ c'[1].lines = <<>>
                    /\ c'[1].start = TimestampsIn(line)[1]
              /\ (~ matches /\ line # <<>> /\ c # <<>>) =>
                    /\ err' = NoError
                    /\ c' = <<[c[1] EXCEPT !.lines = c[1].lines \o <<line>>]>>
              /\ (~ matches /\ line # <<>> /\ c = <<>>) =>
                    err' = MalformedCaptionError("Caption missing timeframe",
                                                 index + 1)
              /\ err'.kind # "none" =>
                    /\ err'.kind = "MalformedCaptionError"
                    /\ err'.msg \in {"Caption missing timeframe",
                                     "Caption missing text"}]_vars

\* A truncated timing line was taken as text of the first caption, and the
\* same line raised "Caption missing timeframe" once no caption was open.
C20_Witness ==
    /\ fmt = "sbv"
    /\ pc = "error"
    /\ err = MalformedCaptionError("Caption missing timeframe", index + 1)
    /\ TokenAt(lines[index + 1], 2) = ","
    /\ Len(captions) = 1
    /\ captions[1].lines = <<lines[index + 1]>>

====
